---------------------------- MODULE Spec2Model ----------------------------
(***************************************************************************)
(* Model of the boot protocol engine of drquad32's quadcontrol tool        *)
(* (Tools/quadcontrol/BootProtocol.cpp): the response wait, the five step  *)
(* functions, the windowed bulk write and the sendHexFile pipeline.        *)
(*                                                                         *)
(* The engine is single threaded.  pc is the position of that thread.      *)
(* Inbound messages and the user's cancel click are delivered by the Qt    *)
(* event loop, which the engine runs only in QApplication::processEvents   *)
(* (inside bootGetResponse) and in QProgressDialog::setValue (inside       *)
(* showProgress, the dialog being window modal).                           *)
(***************************************************************************)
EXTENDS Integers, Sequences, FiniteSets, TLC

VARIABLES
    pc,             \* position of the engine's thread
    mode,           \* "pipeline": inside sendHexFile; "direct": a step function called on its own
    step,           \* the step function being executed
    start_addr,     \* ih.sections[0].offset
    data,           \* ih.sections[0].data
    tries,          \* sendHexFile: tries
    ok,             \* sendHexFile: ok
    sector,         \* sendHexFile: i of the erase loop / bootEraseSector: sector
    addr,           \* bootWriteData, bootVerifyData: addr
    wdata,          \* bootWriteData, bootVerifyData: data
    chunks,         \* bootWriteData: chunks
    ack_window,     \* bootWriteData: ack_window
    i,              \* bootWriteData: i
    offset,         \* bootWriteData: offset
    timeout,        \* bootGetResponse: timeout (0 once the caller has gone on)
    polls,          \* history: polling rounds of the current bootGetResponse call
    got,            \* value returned by the last bootGetResponse
    res,            \* response filled in by the last bootGetResponse
    ret,            \* value returned by the last step function
    messageQueue,   \* BootProtocol::messageQueue
    canceled,       \* progressDialog.wasCanceled()
    m_errorString,  \* BootProtocol::m_errorString
    result,         \* value returned by sendHexFile (or by the directly called function)
    lastSent,       \* history: the last message handed to connection.sendMessage
    prevSent,       \* history: the message handed to connection.sendMessage before that
    answered,       \* history: responses the target has given to the requests of the current step
    sentAfterCancel,\* history: messages sent after wasCanceled() had returned true
    completed,      \* history: steps that ran to their final "return true"
    nEnter,         \* history: number of bootEnter calls of this run
    firstOk,        \* history: index of the first bootEnter call that returned true, 0 if none
    cancelSeenAt,   \* history: where wasCanceled() first returned true ("none" if never)
    chunksSent,     \* history: BootWriteData requests sent by the current bootWriteData call
    acksConsumed,   \* history: BootResponses consumed by the current bootWriteData call
    ackStatuses,    \* history: status bytes of those responses
    failIdx,        \* history: index (from 0) of the first response with a bad status, -1 if none
    msg_h,          \* firmware, msg_send: the message *msg
    tx_buf,         \* firmware: static uint8_t tx_buf[MAX_BUF_LENGTH]
    send_res,       \* firmware, msg_send: res
    send_ret,       \* firmware: value returned by the last msg_send
    stdout,         \* firmware: the bytes written to STDOUT_FILENO
    spc,            \* firmware: position of the shell task
    nSends,         \* firmware, history: number of msg_send calls
    overrun,        \* firmware, history: a byte was written outside tx_buf
    rx              \* receiving end: the byte sequences decoded from stdout

vars == << pc, mode, step, start_addr, data, tries, ok, sector, addr, wdata,
           chunks, ack_window, i, offset, timeout, polls, got, res, ret,
           messageQueue, canceled, m_errorString, result,
           lastSent, prevSent, answered, sentAfterCancel, completed, nEnter, firstOk, cancelSeenAt,
           chunksSent, acksConsumed, ackStatuses, failIdx,
           msg_h, tx_buf, send_res, send_ret, stdout, spc, nSends, overrun, rx >>

fwVars    == << msg_h, tx_buf, send_res, send_ret, stdout, spc, nSends, overrun, rx >>
imageVars == << mode, start_addr, data >>
loopVars  == << tries, ok, sector >>
writeVars == << addr, wdata, chunks, ack_window, i, offset >>
waitVars  == << timeout, polls, got, res >>
envVars   == << messageQueue, canceled >>
sendVars  == << lastSent, prevSent, answered, sentAfterCancel >>
enterHist == << nEnter, firstOk >>
writeHist == << chunksSent, acksConsumed, ackStatuses, failIdx >>

-----------------------------------------------------------------------------
(* Bounds of the model *)

\* bootGetResponse's default timeout in ms (the default argument given in
\* BootProtocol.h); the engine's control flow is the same for any positive value.
DefaultTimeout == 20

\* sizeof(msg_boot_write_data::data), the payload capacity of one write
\* message (msg_structs.h); the chunking is the same for any positive value.
ChunkSize == 4

\* Most messages the inbound queue holds in the model (the queue is unbounded).
MaxQueue == 1

\* The same, for a bootGetResponse called on its own.
GetQueueLen == 3

(* Program constants *)
MaxTries == 100
FirstSector == 4
EndSector == 12
MaxAckWindow == 10
EraseTimeout == 2000
PollInterval == 10
VectorSize == 8
EnterOk == 1
FLASH_BUSY == 1
FLASH_COMPLETE == 9

-----------------------------------------------------------------------------
(* Text formatting, as QString::sprintf does it *)

RECURSIVE Digits(_, _)
\* the digits of n > 0 in the given base, most significant first
Digits(n, base) ==
    IF n = 0 THEN << >> ELSE Append(Digits(n \div base, base), n % base)

RECURSIVE PadLeft(_, _)
PadLeft(s, width) == IF Len(s) >= width THEN s ELSE PadLeft(<<0>> \o s, width)

\* sprintf("%d", n) for n >= 0
Dec(n) == IF n = 0 THEN <<0>> ELSE Digits(n, 10)

\* sprintf("%0<width>x", n) for n >= 0: at least width digits, never truncated
Hex(n, width) == PadLeft(Digits(n, 16), width)

flashStatusStr(status) ==
    CASE status = 1 -> "FLASH_BUSY"
      [] status = 2 -> "FLASH_ERROR_RD"
      [] status = 3 -> "FLASH_ERROR_PGS"
      [] status = 4 -> "FLASH_ERROR_PGP"
      [] status = 5 -> "FLASH_ERROR_PGA"
      [] status = 6 -> "FLASH_ERROR_WRP"
      [] status = 7 -> "FLASH_ERROR_PROGRAM"
      [] status = 8 -> "FLASH_ERROR_OPERATION"
      [] status = 9 -> "FLASH_COMPLETE"
      [] OTHER      -> Dec(status)

-----------------------------------------------------------------------------
(* Byte sequences *)

\* QByteArray::mid(pos): the bytes from 0-based position pos to the end
Mid(s, pos) == IF pos >= Len(s) THEN << >> ELSE SubSeq(s, pos + 1, Len(s))

\* QByteArray::mid(pos, len)
MidLen(s, pos, len) ==
    IF pos >= Len(s) THEN << >>
    ELSE SubSeq(s, pos + 1, IF pos + len > Len(s) THEN Len(s) ELSE pos + len)

Min(a, b) == IF a < b THEN a ELSE b

-----------------------------------------------------------------------------
(* Messages *)

\* a BootResponse with the given four leading payload bytes
Resp(bytes) == [id |-> "BOOT_RESPONSE", data |-> bytes]

\* any message of another id (telemetry, shell output)
Other == [id |-> "OTHER", data |-> <<0, 0, 0, 0>>]

\* the payload of a response that carries a status byte
Status(s) == <<s, 0, 0, 0>>

NoMsg == [id |-> "NONE"]
NoRes == <<0, 0, 0, 0>>

\* 0xB00710AD, least significant byte first
Magic == <<173, 16, 7, 176>>

\* crc32_init / crc32_update / crc32_finalize: a deterministic 32-bit checksum
\* of a byte buffer, as four bytes, least significant first
RECURSIVE SumBytes(_)
SumBytes(s) == IF s = << >> THEN 0 ELSE s[1] + SumBytes(Tail(s))
RECURSIVE SumPrefixes(_)
SumPrefixes(s) ==
    IF s = << >> THEN 0 ELSE 1 + SumBytes(s) + SumPrefixes(SubSeq(s, 1, Len(s) - 1))
crc32(s) ==
    LET a == (1 + SumBytes(s)) % 65521
        b == SumPrefixes(s) % 65521
    IN  << a % 256, a \div 256, b % 256, b \div 256 >>

\* *(uint*)res.data: the first four bytes of the response read as one 32-bit word
U32(bytes) == << bytes[1], bytes[2], bytes[3], bytes[4] >>

RECURSIVE StripTo(_, _)
StripTo(s, width) ==
    IF Len(s) > width /\ s[1] = 0 THEN StripTo(Tail(s), width) ELSE s

\* sprintf("%0<width>x", w) for a 32-bit word w
HexU32(w, width) ==
    StripTo(PadLeft(Digits(w[4], 16), 2) \o PadLeft(Digits(w[3], 16), 2) \o
            PadLeft(Digits(w[2], 16), 2) \o PadLeft(Digits(w[1], 16), 2), width)

-----------------------------------------------------------------------------
(* Firmware images and inputs *)

ImageByte(k) == (k * 37 + 11) % 256
ImageData(len) == [k \in 1..len |-> ImageByte(k)]

FlashBase == 134283264     \* 0x08010000, the start of sector 4

\* lengths of the first section of the hex file: shorter than the entry vector,
\* and the entry vector followed by more than one chunk
ImageLens == {3, VectorSize + ChunkSize + 1}

\* chunk counts of the regions given to a directly called bootWriteData
WriteChunks == {0, 1, 2, MaxAckWindow, MaxAckWindow + 1, 25}
WriteLens == {n * ChunkSize - r : n \in WriteChunks \ {0}, r \in {0, 1}} \cup {0}

\* status bytes a target may answer an erase with: every FLASH_Status and
\* values outside the enumeration of one, two and three decimal digits
StatusBytes == (0..10) \cup {100, 255}

\* sectors given to a directly called bootEraseSector
EraseSectors == {0, 5, 11}

\* what may arrive while bootEraseSector runs
EraseMsgs == {Resp(Status(s)) : s \in StatusBytes} \cup {Other}

\* what may arrive while bootWriteData runs
WriteMsgs == {Resp(Status(s)) : s \in {0, FLASH_BUSY, 4, FLASH_COMPLETE}} \cup {Other}

\* lengths of the regions given to a directly called bootVerifyData
VerifyLens == {0, 1, 5, 40}

\* w with byte k (1..4) changed
Corrupt(w, k) == [w EXCEPT ![k] = (w[k] + 1) % 256]

\* what may arrive while bootVerifyData runs on wdata: the right checksum, and
\* checksums that differ from it in one byte
VerifyMsgs ==
    {Resp(crc32(wdata))} \cup {Resp(Corrupt(crc32(wdata), k)) : k \in 1..4} \cup {Other}

\* what may arrive while sendHexFile runs on the image in data
PipelineMsgs ==
    {Resp(Status(EnterOk)), Resp(Status(FLASH_COMPLETE)), Resp(crc32(Mid(data, VectorSize))), Other}

-----------------------------------------------------------------------------
(* The firmware's message sender: buffers and inputs (Source/test.c) *)

\* MSG_MAX_DATA_SIZE (msg_structs.h): the largest data_len of a message
MSG_MAX_DATA_SIZE == 252

\* the largest code byte of the byte stuffing: a run of MaxCode - 1 bytes
MaxCode == 255

\* COBSR_ENCODE_DST_BUF_LEN_MAX(n) (cobsr.h): the worst-case encoded length of n bytes
COBSR_ENCODE_DST_BUF_LEN_MAX(n) == n + n \div (MaxCode - 1) + 1

\* COBSR(CRC + ID + MSG_MAX_DATA_SIZE) + End-of-packet
MAX_BUF_LENGTH == COBSR_ENCODE_DST_BUF_LEN_MAX(2 + 2 + MSG_MAX_DATA_SIZE) + 1

\* most msg_send calls of one behaviour
MaxSends == 2

\* the value of send_ret while no msg_send has returned
NoReturn == -2

NoMessage == [crc |-> << 0, 0 >>, id |-> << 0, 0 >>, data_len |-> 0, data |-> << >>]
EmptyBuf == [k \in 1..MAX_BUF_LENGTH |-> 0]

\* the firmware does not run
FirmwareIdle ==
    /\ msg_h = NoMessage /\ tx_buf = EmptyBuf
    /\ send_res = 0 /\ send_ret = NoReturn /\ stdout = << >>
    /\ spc = "off" /\ nSends = 0 /\ overrun = FALSE /\ rx = << >>

\* payload bytes: the terminator, small values (below, at and above the code of
\* a short final run) and the largest byte
SmallBytes == {0, 1, 2, 5, 255}

\* every payload of up to three of these bytes
ShortData == UNION {[1..n -> SmallBytes] : n \in 0..3}

\* n bytes b, with a 0 at position z (if z is in 1..n) and ending in last
Fill(n, b, z, last) ==
    [k \in 1..n |-> IF k = n THEN last ELSE IF k = z THEN 0 ELSE b]

\* payloads around the largest data_len: runs of MaxCode - 1 and more bytes
\* without a terminator, with and without one in the middle; the longest is
\* one byte longer than a message may be
LongData ==
    {Fill(n, b, z, last) : n \in (MSG_MAX_DATA_SIZE - 3)..(MSG_MAX_DATA_SIZE + 1),
                           b \in {1, 255}, z \in {0, 100}, last \in {0, 1, 254, 255}}

MsgIds == {<< 0, 0 >>, << 1, 1 >>}

-----------------------------------------------------------------------------
(* Initial states *)

InitCommon ==
    /\ tries = 0 /\ ok = FALSE
    /\ chunks = 0 /\ ack_window = 0 /\ i = 0 /\ offset = 0
    /\ timeout = 0 /\ polls = 0 /\ got = FALSE /\ res = NoRes /\ ret = FALSE
    /\ messageQueue = << >>
    /\ canceled = FALSE
    /\ m_errorString = << >>
    /\ result = "none"
    /\ lastSent = NoMsg /\ prevSent = NoMsg /\ answered = 0 /\ sentAfterCancel = 0
    /\ completed = {}
    /\ nEnter = 0 /\ firstOk = 0
    /\ cancelSeenAt = "none"
    /\ chunksSent = 0 /\ acksConsumed = 0 /\ ackStatuses = {} /\ failIdx = -1

\* the tool is idle; the hex file to be sent holds one section
Init ==
    /\ InitCommon /\ FirmwareIdle
    /\ pc = "idle" /\ mode = "pipeline" /\ step = "none"
    /\ start_addr = FlashBase
    /\ \E len \in ImageLens : data = ImageData(len)
    /\ sector = 0 /\ addr = 0 /\ wdata = << >>

-----------------------------------------------------------------------------
(* The event loop: inbound messages and the cancel button *)

\* positions at which the engine runs the event loop: idle in the main loop,
\* processEvents in bootGetResponse, and setValue in the showProgress that
\* precedes the sends of these positions
EventPcs == {"idle", "poll", "reset", "erase_call", "v_call", "x_call"}
InEventLoop == pc \in EventPcs \/ (pc = "w_top" /\ i < chunks)

QueueBound == IF step = "get" THEN GetQueueLen ELSE MaxQueue

connection_messageReceived(msg) ==
    /\ InEventLoop
    /\ Len(messageQueue) < QueueBound
    /\ messageQueue' = Append(messageQueue, msg)
    /\ UNCHANGED << fwVars, pc, step, imageVars, loopVars, writeVars, waitVars, ret, canceled,
                    m_errorString, result, sendVars, completed, enterHist,
                    cancelSeenAt, writeHist >>

\* the user presses Cancel on the progress dialog
Cancel ==
    /\ InEventLoop /\ pc # "idle"
    /\ ~canceled
    /\ canceled' = TRUE
    /\ UNCHANGED << fwVars, pc, step, imageVars, loopVars, writeVars, waitVars, ret, messageQueue,
                    m_errorString, result, sendVars, completed, enterHist,
                    cancelSeenAt, writeHist >>

-----------------------------------------------------------------------------
(* bootGetResponse *)

\* a plausible slip: the newest BootResponse is taken
FirstResponse_Newest(q, k) ==
    LET R == {j \in k..Len(q) : q[j].id = "BOOT_RESPONSE"}
    IN  IF R = {} THEN 0 ELSE CHOOSE j \in R : \A n \in R : n <= j

\* index of the oldest BootResponse in q, 0 if there is none
RECURSIVE FirstResponse(_, _)
FirstResponse(q, k) ==
    IF k > Len(q) THEN 0
    ELSE IF q[k].id = "BOOT_RESPONSE" THEN k ELSE FirstResponse(q, k + 1)

ErrTimeOut == << "Time out" >>

\* a plausible change: the wait gives up when the cancel button is pressed
WaitGoesOn_UntilCancel == timeout > 0 /\ ~canceled

\* a plausible slip: while (timeout >= 0)
WaitGoesOn_OffByOne == timeout >= 0

\* while (timeout > 0)
WaitGoesOn == timeout > 0

\* the head of the outer loop and the inner loop that drains the queue
bootGetResponse ==
    /\ pc = "wait"
    /\ IF WaitGoesOn
       THEN LET k == FirstResponse(messageQueue, 1) IN
            IF k > 0
            THEN /\ res' = messageQueue[k].data
                 /\ messageQueue' = SubSeq(messageQueue, k + 1, Len(messageQueue))
                 /\ got' = TRUE
                 /\ pc' = "ret"
                 /\ UNCHANGED m_errorString
            ELSE /\ messageQueue' = << >>
                 /\ pc' = "poll"
                 /\ UNCHANGED << res, got, m_errorString >>
       ELSE /\ m_errorString' = ErrTimeOut
            /\ got' = FALSE
            /\ pc' = "ret"
            /\ UNCHANGED << res, messageQueue >>
    /\ UNCHANGED << fwVars, step, imageVars, loopVars, writeVars, timeout, polls, ret, canceled,
                    result, sendVars, completed, enterHist, cancelSeenAt, writeHist >>

\* QApplication::processEvents(); QThread::msleep(10); timeout -= 10
bootGetResponsePoll ==
    /\ pc = "poll"
    /\ timeout' = timeout - PollInterval
    /\ polls' = polls + 1
    /\ pc' = "wait"
    /\ UNCHANGED << fwVars, step, imageVars, loopVars, writeVars, got, res, ret, envVars,
                    m_errorString, result, sendVars, completed, enterHist,
                    cancelSeenAt, writeHist >>

-----------------------------------------------------------------------------
(* Helpers shared by the step functions *)

\* connection.sendMessage(&msg.h)
Send(msg) ==
    /\ lastSent' = msg
    /\ prevSent' = lastSent
    /\ answered' = IF msg.id = "BOOT_WRITE_DATA" /\ chunksSent > 0 THEN answered ELSE 0
    /\ sentAfterCancel' = IF cancelSeenAt # "none" THEN sentAfterCancel + 1 ELSE sentAfterCancel

IsWrite == step \in {"write", "write1", "write2"}

\* the step being executed, with the sector for an erase
Tag == IF step = "erase" THEN << "erase", sector >> ELSE << step, 0 >>

\* a step function returns v; final tells its last "return true" from the
\* "return true" of a cancelled bootWriteData
FnReturn(v, final) ==
    /\ ret' = v
    /\ completed' = IF v /\ final THEN completed \cup {Tag} ELSE completed
    /\ IF mode = "direct"
       THEN pc' = "done" /\ result' = (IF v THEN "true" ELSE "false")
       ELSE pc' = "step" /\ UNCHANGED result

-----------------------------------------------------------------------------
(* bootEnter *)

ErrCantEnterStatus(status) == << "Can't enter bootloader: %d", Dec(status) >>

\* a plausible slip: the reset of the running firmware is left out
bootResetHack_Skipped ==
    /\ pc = "reset"
    /\ nEnter' = nEnter + 1
    /\ pc' = "enter"
    /\ UNCHANGED << fwVars, step, imageVars, loopVars, writeVars, waitVars, ret, envVars,
                    m_errorString, result, sendVars, completed, firstOk, cancelSeenAt,
                    writeHist >>

bootResetHack ==
    /\ pc = "reset"
    /\ Send([id |-> "SHELL_FROM_PC", text |-> << 3, 10, "reset", 10 >>])
    /\ nEnter' = nEnter + 1
    /\ pc' = "enter"
    /\ UNCHANGED << fwVars, step, imageVars, loopVars, writeVars, waitVars, ret, envVars,
                    m_errorString, result, completed, firstOk, cancelSeenAt, writeHist >>

bootEnter ==
    /\ pc = "enter"
    /\ Send([id |-> "BOOT_ENTER", magic |-> Magic])
    /\ timeout' = DefaultTimeout /\ polls' = 0
    /\ pc' = "wait"
    /\ UNCHANGED << fwVars, step, imageVars, loopVars, writeVars, got, res, ret, envVars,
                    m_errorString, result, completed, enterHist, cancelSeenAt, writeHist >>

\* the rest of bootEnter, and "ok = bootEnter(), true" of the enter loop
bootEnterReturn ==
    /\ pc = "ret" /\ step = "enter"
    /\ timeout' = 0 /\ polls' = 0
    /\ LET v == got /\ res[1] = EnterOk IN
       /\ m_errorString' = IF got /\ res[1] # EnterOk
                           THEN ErrCantEnterStatus(res[1]) ELSE m_errorString
       /\ ok' = v
       /\ firstOk' = IF v /\ firstOk = 0 THEN nEnter ELSE firstOk
       /\ completed' = IF v THEN completed \cup {Tag} ELSE completed
    /\ ret' = TRUE
    /\ pc' = "step"
    /\ UNCHANGED << fwVars, step, imageVars, tries, sector, writeVars, got, res, envVars,
                    result, sendVars, nEnter, cancelSeenAt, writeHist >>

-----------------------------------------------------------------------------
(* bootExit *)

ErrCantExitStatus(status) == << "Can't exit bootloader: %d", Dec(status) >>

bootExit ==
    /\ pc = "x_call"
    /\ Send([id |-> "BOOT_EXIT"])
    /\ timeout' = DefaultTimeout /\ polls' = 0
    /\ pc' = "wait"
    /\ UNCHANGED << fwVars, step, imageVars, loopVars, writeVars, got, res, ret, envVars,
                    m_errorString, result, completed, enterHist, cancelSeenAt, writeHist >>

bootExitReturn ==
    /\ pc = "ret" /\ step = "exit"
    /\ timeout' = 0 /\ polls' = 0
    /\ IF ~got THEN
            FnReturn(FALSE, TRUE) /\ UNCHANGED m_errorString
       ELSE IF res[1] # EnterOk THEN
            FnReturn(FALSE, TRUE) /\ m_errorString' = ErrCantExitStatus(res[1])
       ELSE FnReturn(TRUE, TRUE) /\ UNCHANGED m_errorString
    /\ UNCHANGED << fwVars, step, imageVars, loopVars, writeVars, got, res, envVars,
                    sendVars, enterHist, cancelSeenAt, writeHist >>

-----------------------------------------------------------------------------
(* bootEraseSector *)

ErrCantErase(s, status) == << "Can't erase sector %d: %s", Dec(s), flashStatusStr(status) >>

\* a plausible slip: the status is compared with the success value of enter and exit
EraseFailed_WrongCode(status) == status # EnterOk

\* res.data[0] != FLASH_COMPLETE
EraseFailed(status) == status # FLASH_COMPLETE

bootEraseSector ==
    /\ pc = "erase_call"
    /\ Send([id |-> "BOOT_ERASE_SECTOR", sector |-> sector])
    /\ timeout' = EraseTimeout /\ polls' = 0
    /\ pc' = "wait"
    /\ UNCHANGED << fwVars, step, imageVars, loopVars, writeVars, got, res, ret, envVars,
                    m_errorString, result, completed, enterHist, cancelSeenAt, writeHist >>

bootEraseSectorReturn ==
    /\ pc = "ret" /\ step = "erase"
    /\ timeout' = 0 /\ polls' = 0
    /\ IF ~got THEN
            FnReturn(FALSE, TRUE) /\ UNCHANGED m_errorString
       ELSE IF EraseFailed(res[1]) THEN
            FnReturn(FALSE, TRUE) /\ m_errorString' = ErrCantErase(sector, res[1])
       ELSE FnReturn(TRUE, TRUE) /\ UNCHANGED m_errorString
    /\ UNCHANGED << fwVars, step, imageVars, loopVars, writeVars, got, res, envVars,
                    sendVars, enterHist, cancelSeenAt, writeHist >>

-----------------------------------------------------------------------------
(* bootVerifyData *)

ErrCrc(local, remote) ==
    << "Image CRC check failed. Expected 0x%04x, got 0x%04x",
       HexU32(local, 4), HexU32(remote, 4) >>

\* a plausible slip: only the low 16 bits are compared
CrcDiffers_Low16(remote, local) == << remote[1], remote[2] >> # << local[1], local[2] >>

\* remote_crc != local_crc
CrcDiffers(remote, local) == remote # local

bootVerifyData ==
    /\ pc = "v_call"
    /\ Send([id |-> "BOOT_VERIFY", address |-> addr, length |-> Len(wdata)])
    /\ timeout' = DefaultTimeout /\ polls' = 0
    /\ pc' = "wait"
    /\ UNCHANGED << fwVars, step, imageVars, loopVars, writeVars, got, res, ret, envVars,
                    m_errorString, result, completed, enterHist, cancelSeenAt, writeHist >>

bootVerifyDataReturn ==
    /\ pc = "ret" /\ step = "verify"
    /\ timeout' = 0 /\ polls' = 0
    /\ IF ~got THEN
            FnReturn(FALSE, TRUE) /\ UNCHANGED m_errorString
       ELSE IF CrcDiffers(U32(res), crc32(wdata)) THEN
            FnReturn(FALSE, TRUE) /\ m_errorString' = ErrCrc(crc32(wdata), U32(res))
       ELSE FnReturn(TRUE, TRUE) /\ UNCHANGED m_errorString
    /\ UNCHANGED << fwVars, step, imageVars, loopVars, writeVars, got, res, envVars,
                    sendVars, enterHist, cancelSeenAt, writeHist >>

-----------------------------------------------------------------------------
(* bootWriteData *)

ErrCantWrite(a, status) ==
    << "Can't write data at 0x%08x: %s", Hex(a, 8), flashStatusStr(status) >>

\* a plausible slip: the division rounds down
ChunkCount_Floor(len) == len \div ChunkSize

\* (data.length() + chunk_size - 1) / chunk_size
ChunkCount(len) == (len + ChunkSize - 1) \div ChunkSize

\* std::min(chunks, 10)
AckWindow(n) == Min(n, MaxAckWindow)

\* a plausible slip: the loop ends with the last chunk, the window is not drained
WriteLoopGoesOn_NoDrain == i < chunks

\* i < chunks + ack_window
WriteLoopGoesOn == i < chunks + ack_window

\* i >= ack_window
AckIsDue == i >= ack_window

\* the address the failure message of bootWriteData is given
WriteErrorAddr == addr

\* a plausible slip: the cancel button is polled but the loop goes on
ChunkCancelReturns_Ignored(c) == FALSE

\* after a chunk is sent: "if (progressDialog.wasCanceled()) return true;"
ChunkCancelReturns(c) == c

\* the locals of bootWriteData
bootWriteData ==
    /\ pc = "w_call"
    /\ chunks' = ChunkCount(Len(wdata))
    /\ ack_window' = AckWindow(chunks')
    /\ offset' = 0
    /\ i' = 0
    /\ chunksSent' = 0 /\ acksConsumed' = 0 /\ ackStatuses' = {} /\ failIdx' = -1
    /\ pc' = "w_top"
    /\ UNCHANGED << fwVars, step, imageVars, loopVars, addr, wdata, waitVars, ret, envVars,
                    m_errorString, result, sendVars, completed, enterHist, cancelSeenAt >>

\* the send half of one iteration: showProgress, bootWriteDataAsync, offset += chunk_size,
\* and the poll of the cancel button
bootWriteDataAsync ==
    /\ pc = "w_top" /\ WriteLoopGoesOn /\ i < chunks
    /\ Send([id |-> "BOOT_WRITE_DATA", address |-> addr + offset,
             data |-> MidLen(wdata, offset, ChunkSize)])
    /\ offset' = offset + ChunkSize
    /\ chunksSent' = chunksSent + 1
    /\ cancelSeenAt' = IF canceled /\ cancelSeenAt = "none" THEN "chunk" ELSE cancelSeenAt
    /\ IF ChunkCancelReturns(canceled)
       THEN FnReturn(TRUE, FALSE)
       ELSE pc' = "w_ack" /\ UNCHANGED << ret, result, completed >>
    /\ UNCHANGED << fwVars, step, imageVars, loopVars, addr, wdata, chunks, ack_window, i,
                    waitVars, envVars, m_errorString, enterHist,
                    acksConsumed, ackStatuses, failIdx >>

\* an iteration after the last chunk: nothing is sent
bootWriteDataDrain ==
    /\ pc = "w_top" /\ WriteLoopGoesOn /\ ~(i < chunks)
    /\ pc' = "w_ack"
    /\ UNCHANGED << fwVars, step, imageVars, loopVars, writeVars, waitVars, ret, envVars,
                    m_errorString, result, sendVars, completed, enterHist,
                    cancelSeenAt, writeHist >>

\* the loop is over: return true
bootWriteDataDone ==
    /\ pc = "w_top" /\ ~WriteLoopGoesOn
    /\ FnReturn(TRUE, TRUE)
    /\ UNCHANGED << fwVars, step, imageVars, loopVars, writeVars, waitVars, envVars,
                    m_errorString, sendVars, enterHist, cancelSeenAt, writeHist >>

\* the acknowledge half of one iteration: wait for a response once the window is full
bootWriteDataAck ==
    /\ pc = "w_ack"
    /\ IF AckIsDue
       THEN timeout' = DefaultTimeout /\ polls' = 0 /\ pc' = "wait" /\ UNCHANGED i
       ELSE i' = i + 1 /\ pc' = "w_top" /\ UNCHANGED << timeout, polls >>
    /\ UNCHANGED << fwVars, step, imageVars, loopVars, addr, wdata, chunks, ack_window, offset,
                    got, res, ret, envVars, m_errorString, result, sendVars,
                    completed, enterHist, cancelSeenAt, writeHist >>

bootWriteDataAckReturn ==
    /\ pc = "ret" /\ IsWrite
    /\ timeout' = 0 /\ polls' = 0
    /\ IF ~got THEN
            /\ FnReturn(FALSE, TRUE)
            /\ UNCHANGED << m_errorString, i, acksConsumed, ackStatuses, failIdx >>
       ELSE /\ acksConsumed' = acksConsumed + 1
            /\ ackStatuses' = ackStatuses \cup {res[1]}
            /\ IF res[1] # FLASH_COMPLETE THEN
                    /\ m_errorString' = ErrCantWrite(WriteErrorAddr, res[1])
                    /\ failIdx' = acksConsumed
                    /\ FnReturn(FALSE, TRUE)
                    /\ UNCHANGED i
               ELSE /\ i' = i + 1
                    /\ pc' = "w_top"
                    /\ UNCHANGED << m_errorString, failIdx, ret, result, completed >>
    /\ UNCHANGED << fwVars, step, imageVars, loopVars, addr, wdata, chunks, ack_window, offset,
                    got, res, envVars, sendVars, enterHist, cancelSeenAt, chunksSent >>

-----------------------------------------------------------------------------
(* sendHexFile *)

ErrLoad == << "ih.errorString()" >>

\* a plausible slip: the message of the last failed attempt is left in place
ErrCantEnter_Stale == m_errorString

ErrCantEnter == << "Can't enter boot loader" >>

\* a plausible slip: tries++ <= 100
EnterLoopGoesOn_OffByOne(t, o) == t <= MaxTries /\ ~o

\* tries++ < 100 && !ok
EnterLoopGoesOn(t, o) == t < MaxTries /\ ~o

\* a plausible slip: the first region write does not skip the entry vector
RegionAddr_NoSkip(s) == start_addr

\* the address and the bytes of the two region writes
RegionAddr(s) == IF s = "write1" THEN start_addr + VectorSize ELSE start_addr
RegionData(s) == IF s = "write1" THEN Mid(data, VectorSize) ELSE MidLen(data, 0, VectorSize)

\* a plausible slip: a cancelled run returns false
StepCancelResult_False == "false"

\* the value sendHexFile returns when STEP finds the run cancelled
StepCancelResult == "true"

\* the step that follows a successful step
NextStep(s) ==
    CASE s = "write1" -> "verify"
      [] s = "verify" -> "write2"
      [] s = "write2" -> "exit"
      [] OTHER        -> s

\* progressDialog.reset(); ih.loadHex(fileName) succeeds
sendHexFile ==
    /\ pc = "idle"
    /\ canceled' = FALSE
    /\ tries' = 0 /\ ok' = FALSE
    /\ step' = "enter"
    /\ pc' = "loop"
    /\ UNCHANGED << fwVars, imageVars, sector, writeVars, waitVars, ret, messageQueue,
                    m_errorString, result, sendVars, completed, enterHist,
                    cancelSeenAt, writeHist >>

\* ih.loadHex(fileName) fails
sendHexFileLoadError ==
    /\ pc = "idle"
    /\ canceled' = FALSE
    /\ m_errorString' = ErrLoad
    /\ result' = "false"
    /\ pc' = "done"
    /\ UNCHANGED << fwVars, step, imageVars, loopVars, writeVars, waitVars, ret, messageQueue,
                    sendVars, completed, enterHist, cancelSeenAt, writeHist >>

\* the test of the enter loop and what follows the loop; tries is not read
\* after the loop, and is forgotten (with the history of the attempts) when the
\* run goes on to the erase loop
enterLoop ==
    /\ pc = "loop"
    /\ IF EnterLoopGoesOn(tries, ok) THEN
            /\ tries' = tries + 1
            /\ pc' = "reset"
            /\ UNCHANGED << m_errorString, result, sector, enterHist >>
       ELSE IF ~ok THEN
            /\ tries' = tries + 1
            /\ m_errorString' = ErrCantEnter
            /\ result' = "false"
            /\ pc' = "done"
            /\ UNCHANGED << sector, enterHist >>
       ELSE /\ tries' = 0 /\ nEnter' = 0 /\ firstOk' = 0
            /\ sector' = FirstSector
            /\ pc' = "eraseLoop"
            /\ UNCHANGED << m_errorString, result >>
    /\ UNCHANGED << fwVars, step, imageVars, ok, writeVars, waitVars, ret, envVars,
                    sendVars, completed, cancelSeenAt, writeHist >>

\* the test of the erase loop; after the loop, the call of the first region write
eraseLoop ==
    /\ pc = "eraseLoop"
    /\ IF sector < EndSector
       THEN step' = "erase" /\ pc' = "erase_call" /\ UNCHANGED << addr, wdata >>
       ELSE /\ step' = "write1"
            /\ addr' = RegionAddr("write1")
            /\ wdata' = RegionData("write1")
            /\ pc' = "w_call"
    /\ UNCHANGED << fwVars, imageVars, loopVars, chunks, ack_window, i, offset, waitVars, ret,
                    envVars, m_errorString, result, sendVars, completed, enterHist,
                    cancelSeenAt, writeHist >>

\* a plausible slip: the value of the step function is not tested
StepFails_Never(r) == FALSE

\* if (!function) return false;
StepFails(r) == ~r

\* the STEP macro, after the step function has returned ret
STEP ==
    /\ pc = "step"
    /\ IF StepFails(ret) THEN
            /\ result' = "false"
            /\ pc' = "done"
            /\ UNCHANGED << step, sector, addr, wdata, cancelSeenAt >>
       ELSE IF canceled THEN
            /\ cancelSeenAt' = IF cancelSeenAt = "none" THEN "step" ELSE cancelSeenAt
            /\ result' = StepCancelResult
            /\ pc' = "done"
            /\ UNCHANGED << step, sector, addr, wdata >>
       ELSE /\ step' = NextStep(step)
            /\ sector' = IF step = "erase" THEN sector + 1 ELSE sector
            /\ addr' = CASE step = "write1" -> RegionAddr("write1")
                         [] step = "verify" -> RegionAddr("write2")
                         [] OTHER -> addr
            /\ wdata' = CASE step = "write1" -> RegionData("write1")
                          [] step = "verify" -> RegionData("write2")
                          [] OTHER -> wdata
            /\ pc' = CASE step = "enter"  -> "loop"
                       [] step = "erase"  -> "eraseLoop"
                       [] step = "write1" -> "v_call"
                       [] step = "verify" -> "w_call"
                       [] step = "write2" -> "x_call"
                       [] step = "exit"   -> "done"
            /\ result' = IF step = "exit" THEN "true" ELSE result
            /\ UNCHANGED cancelSeenAt
    /\ UNCHANGED << fwVars, imageVars, tries, ok, chunks, ack_window, i, offset, waitVars, ret,
                    envVars, m_errorString, sendVars, completed, enterHist, writeHist >>

-----------------------------------------------------------------------------
(* The update run *)

Next ==
    \/ sendHexFile
    \/ sendHexFileLoadError
    \/ enterLoop
    \/ bootResetHack
    \/ bootEnter
    \/ bootEnterReturn
    \/ eraseLoop
    \/ bootEraseSector
    \/ bootEraseSectorReturn
    \/ bootWriteData
    \/ bootWriteDataAsync
    \/ bootWriteDataDrain
    \/ bootWriteDataDone
    \/ bootWriteDataAck
    \/ bootWriteDataAckReturn
    \/ bootVerifyData
    \/ bootVerifyDataReturn
    \/ bootExit
    \/ bootExitReturn
    \/ STEP
    \/ bootGetResponse
    \/ bootGetResponsePoll
    \/ \E msg \in PipelineMsgs : connection_messageReceived(msg)
    \/ Cancel

Spec == Init /\ [][Next]_vars

-----------------------------------------------------------------------------
(* The update run against a target that answers every request correctly *)

\* requests of the current step function call the target has not answered
Outstanding ==
    IF IsWrite THEN chunksSent - answered
    ELSE IF lastSent.id \in {"BOOT_ENTER", "BOOT_ERASE_SECTOR", "BOOT_VERIFY", "BOOT_EXIT"}
    THEN 1 - answered
    ELSE 0

\* the request the target answers next: the step, its sector, the bootEnter
\* attempt, and the index of the chunk
AnsweredRequest == << step, sector, nEnter, IF IsWrite THEN answered ELSE 0 >>

\* the request whose answer the engine waits for
AwaitedRequest == << step, sector, nEnter, IF IsWrite THEN acksConsumed ELSE 0 >>

\* the payload of the target's response: success, or the checksum of the region
TargetReply ==
    CASE lastSent.id \in {"BOOT_ENTER", "BOOT_EXIT"} -> Status(EnterOk)
      [] lastSent.id = "BOOT_VERIFY" -> crc32(Mid(data, VectorSize))
      [] OTHER -> Status(FLASH_COMPLETE)

\* the target answers the oldest unanswered request of the current step
\* function call, or never answers it; the response reaches the queue when the
\* engine next runs the event loop.  req records the request answered: it is
\* no part of the message.
TargetAnswers ==
    /\ InEventLoop
    /\ Len(messageQueue) < QueueBound
    /\ Outstanding > 0
    /\ messageQueue' = Append(messageQueue,
                              [id |-> "BOOT_RESPONSE", data |-> TargetReply,
                               req |-> AnsweredRequest])
    /\ answered' = answered + 1
    /\ UNCHANGED << fwVars, pc, step, imageVars, loopVars, writeVars, waitVars, ret, canceled,
                    m_errorString, result, lastSent, prevSent, sentAfterCancel, completed,
                    enterHist, cancelSeenAt, writeHist >>

NextTarget ==
    \/ sendHexFile
    \/ sendHexFileLoadError
    \/ enterLoop
    \/ bootResetHack
    \/ bootEnter
    \/ bootEnterReturn
    \/ eraseLoop
    \/ bootEraseSector
    \/ bootEraseSectorReturn
    \/ bootWriteData
    \/ bootWriteDataAsync
    \/ bootWriteDataDrain
    \/ bootWriteDataDone
    \/ bootWriteDataAck
    \/ bootWriteDataAckReturn
    \/ bootVerifyData
    \/ bootVerifyDataReturn
    \/ bootExit
    \/ bootExitReturn
    \/ STEP
    \/ bootGetResponse
    \/ bootGetResponsePoll
    \/ TargetAnswers
    \/ Cancel

SpecTarget == Init /\ [][NextTarget]_vars

-----------------------------------------------------------------------------
(* The step functions called on their own *)

InitDirect ==
    /\ InitCommon /\ FirmwareIdle
    /\ mode = "direct"
    /\ start_addr = FlashBase /\ data = << >>

\* bootWriteData(addr, data) on regions of 0 to 25 chunks
InitWrite ==
    /\ InitDirect
    /\ pc = "w_call" /\ step = "write" /\ sector = 0
    /\ addr = FlashBase
    /\ \E len \in WriteLens : wdata = ImageData(len)

NextWrite ==
    \/ bootWriteData
    \/ bootWriteDataAsync
    \/ bootWriteDataDrain
    \/ bootWriteDataDone
    \/ bootWriteDataAck
    \/ bootWriteDataAckReturn
    \/ bootGetResponse
    \/ bootGetResponsePoll
    \/ \E msg \in WriteMsgs : connection_messageReceived(msg)
    \/ Cancel

SpecWrite == InitWrite /\ [][NextWrite]_vars

\* bootEraseSector(sector)
InitErase ==
    /\ InitDirect
    /\ pc = "erase_call" /\ step = "erase"
    /\ sector \in EraseSectors
    /\ addr = 0 /\ wdata = << >>

NextErase ==
    \/ bootEraseSector
    \/ bootEraseSectorReturn
    \/ bootGetResponse
    \/ bootGetResponsePoll
    \/ \E msg \in EraseMsgs : connection_messageReceived(msg)
    \/ Cancel

SpecErase == InitErase /\ [][NextErase]_vars

\* bootVerifyData(addr, data)
InitVerify ==
    /\ InitDirect
    /\ pc = "v_call" /\ step = "verify" /\ sector = 0
    /\ addr = FlashBase + VectorSize
    /\ \E len \in VerifyLens : wdata = ImageData(len)

NextVerify ==
    \/ bootVerifyData
    \/ bootVerifyDataReturn
    \/ bootGetResponse
    \/ bootGetResponsePoll
    \/ \E msg \in VerifyMsgs : connection_messageReceived(msg)
    \/ Cancel

SpecVerify == InitVerify /\ [][NextVerify]_vars

\* The waits of bootEraseSector (2000 ms) and of bootWriteData (the default
\* timeout, once per acknowledgement).  The engine's thread keeps running: the
\* loop of bootGetResponse goes on whenever it can (msleep and processEvents
\* return).
InitWaits == InitErase \/ InitWrite

\* what may arrive during these waits
WaitMsgs == {Resp(Status(FLASH_COMPLETE)), Resp(Status(FLASH_BUSY)), Other}

NextWaits ==
    \/ bootEraseSector
    \/ bootEraseSectorReturn
    \/ bootWriteData
    \/ bootWriteDataAsync
    \/ bootWriteDataDrain
    \/ bootWriteDataDone
    \/ bootWriteDataAck
    \/ bootWriteDataAckReturn
    \/ bootGetResponse
    \/ bootGetResponsePoll
    \/ \E msg \in WaitMsgs : connection_messageReceived(msg)
    \/ Cancel

SpecWaits ==
    /\ InitWaits /\ [][NextWaits]_vars
    /\ WF_vars(bootGetResponse) /\ WF_vars(bootGetResponsePoll)

\* what may arrive before and while a bootGetResponse called on its own runs
GetMsgs == {Resp(Status(EnterOk)), Resp(Status(FLASH_COMPLETE)), Other}

\* bootGetResponse(&res) is called with the default timeout; messages may have
\* been queued before the call
callGetResponse ==
    /\ pc = "idle" /\ step = "get"
    /\ timeout' = DefaultTimeout /\ polls' = 0
    /\ pc' = "wait"
    /\ UNCHANGED << fwVars, step, imageVars, loopVars, writeVars, got, res, ret, envVars,
                    m_errorString, result, sendVars, completed, enterHist,
                    cancelSeenAt, writeHist >>

InitGet ==
    /\ InitDirect
    /\ pc = "idle" /\ step = "get"
    /\ sector = 0 /\ addr = 0 /\ wdata = << >>

NextGet ==
    \/ callGetResponse
    \/ bootGetResponse
    \/ bootGetResponsePoll
    \/ \E msg \in GetMsgs : connection_messageReceived(msg)

SpecGet == InitGet /\ [][NextGet]_vars

-----------------------------------------------------------------------------
(* The firmware's message sender (Source/test.c) *)

engineVars == << pc, mode, step, start_addr, data, tries, ok, sector, addr, wdata,
                 chunks, ack_window, i, offset, timeout, polls, got, res, ret,
                 messageQueue, canceled, m_errorString, result,
                 lastSent, prevSent, answered, sentAfterCancel, completed, nEnter, firstOk, cancelSeenAt,
                 chunksSent, acksConsumed, ackStatuses, failIdx >>

\* the sum of weight(k) * s[k] for k in lo..hi
RECURSIVE WSum(_, _, _, _)
WSum(s, lo, hi, w) ==
    IF lo > hi THEN 0
    ELSE IF lo = hi THEN s[lo] * (IF w THEN lo ELSE 1)
    ELSE LET mid == (lo + hi) \div 2 IN WSum(s, lo, mid, w) + WSum(s, mid + 1, hi, w)

\* crc16_init / crc16_update / crc16_finalize: a deterministic 16-bit checksum
\* of a byte buffer, as two bytes, least significant first
crc16(s) ==
    << (1 + WSum(s, 1, Len(s), FALSE)) % 256, (Len(s) + WSum(s, 1, Len(s), TRUE)) % 256 >>

\* msg_calc_crc: the checksum over the id and the data
msg_calc_crc(m) == crc16(m.id \o m.data)

\* the 2 + 2 + data_len bytes at &msg->crc
HeaderAndData(m) == m.crc \o m.id \o m.data

\* position of the first 0 among the first MaxCode - 1 bytes of s, 0 if there is none
FirstZero(s) ==
    LET Z == {k \in 1..Min(Len(s), MaxCode - 1) : s[k] = 0}
    IN  IF Z = {} THEN 0 ELSE CHOOSE k \in Z : \A j \in Z : k <= j

\* a slip in the rule of the final run: a last byte equal to the run's length
\* is taken as the code as well
FinalRunReduces_OffByOne(last, code) == last >= code - 1

\* the rule of the final run: its last byte takes the place of the code when
\* it is not less than the code
FinalRunReduces(last, code) == last >= code

\* the encoding of s: each run up to a 0 is preceded by its length plus one,
\* a run of MaxCode - 1 bytes without a 0 by MaxCode
RECURSIVE cobsr_blocks(_)
cobsr_blocks(s) ==
    LET z == FirstZero(s)
        n == Len(s)
    IN  IF z > 0
        THEN << z >> \o SubSeq(s, 1, z - 1) \o cobsr_blocks(SubSeq(s, z + 1, n))
        ELSE IF n >= MaxCode
        THEN << MaxCode >> \o SubSeq(s, 1, MaxCode - 1) \o cobsr_blocks(SubSeq(s, MaxCode, n))
        ELSE IF n > 0 /\ FinalRunReduces(s[n], n + 1)
        THEN << s[n] >> \o SubSeq(s, 1, n - 1)
        ELSE << n + 1 >> \o s

\* cobsr_encode(dst, dst_len, src, src_len): the bytes written to dst and the
\* value returned, negative when dst is too small
cobsr_encode(dst_len, src) ==
    LET enc == cobsr_blocks(src)
    IN  IF Len(enc) > dst_len
        THEN [res |-> -1, bytes |-> SubSeq(enc, 1, dst_len)]
        ELSE [res |-> Len(enc), bytes |-> enc]

\* cobsr_decode: the inverse transform, as the receiving end applies it to the
\* bytes accumulated before a terminator
RECURSIVE cobsr_decode(_)
cobsr_decode(f) ==
    IF f = << >> THEN << >>
    ELSE LET c == f[1]
             rest == Tail(f)
             r == Len(rest)
         IN  IF c - 1 < r
             THEN SubSeq(rest, 1, c - 1) \o (IF c # MaxCode THEN << 0 >> ELSE << >>)
                    \o cobsr_decode(SubSeq(rest, c, r))
             ELSE rest \o (IF c - 1 > r THEN << c >> ELSE << >>)

\* position of the first 0 of s, 0 if there is none
Terminator(s) ==
    LET Z == {k \in 1..Len(s) : s[k] = 0}
    IN  IF Z = {} THEN 0 ELSE CHOOSE k \in Z : \A j \in Z : k <= j

\* the receiving end: bytes are accumulated up to a terminator, the accumulated
\* run is decoded, an empty run is skipped
RECURSIVE DecodeStream(_)
DecodeStream(s) ==
    LET z == Terminator(s)
    IN  IF z = 0 THEN << >>
        ELSE (IF z = 1 THEN << >> ELSE << cobsr_decode(SubSeq(s, 1, z - 1)) >>)
                \o DecodeStream(SubSeq(s, z + 1, Len(s)))

\* a slip: the whole buffer is offered to the encoder, no room is kept for the
\* end-of-packet marker
BufCapacity_Full == MAX_BUF_LENGTH

\* sizeof(tx_buf) - 1
BufCapacity == MAX_BUF_LENGTH - 1

\* a slip: a second end-of-packet marker follows the first
EndOfPacket_Twice == << 0, 0 >>

\* the end-of-packet marker
EndOfPacket == << 0 >>

\* buf with bytes stored from buf[0] on; the bytes that fall outside are lost
Store(buf, bytes) ==
    [k \in 1..MAX_BUF_LENGTH |-> IF k <= Len(bytes) THEN bytes[k] ELSE buf[k]]

\* the shell runs the command "test": send_imu_data calls msg_send
cmd_test ==
    /\ spc = "idle"
    /\ nSends < MaxSends
    /\ nSends' = nSends + 1
    /\ spc' = "call"
    /\ UNCHANGED << engineVars, msg_h, tx_buf, send_res, send_ret, stdout, overrun, rx >>

\* msg_send up to the end-of-packet marker
msg_send ==
    /\ spc = "call"
    /\ msg_h' = [msg_h EXCEPT !.crc = msg_calc_crc(msg_h)]
    /\ LET e == cobsr_encode(BufCapacity, HeaderAndData(msg_h')) IN
       IF e.res < 0
       THEN /\ tx_buf' = Store(tx_buf, e.bytes)
            /\ overrun' = (overrun \/ Len(e.bytes) > MAX_BUF_LENGTH)
            /\ send_res' = e.res
            /\ send_ret' = -1
            /\ spc' = "idle"
       ELSE /\ tx_buf' = Store(tx_buf, e.bytes \o EndOfPacket)
            /\ overrun' = (overrun \/ e.res + Len(EndOfPacket) > MAX_BUF_LENGTH)
            /\ send_res' = e.res + Len(EndOfPacket)
            /\ spc' = "write_lead"
            /\ UNCHANGED send_ret
    /\ UNCHANGED << engineVars, stdout, nSends, rx >>

\* write(STDOUT_FILENO, "\0", 1)
msg_send_lead ==
    /\ spc = "write_lead"
    /\ stdout' = Append(stdout, 0)
    /\ spc' = "write_frame"
    /\ UNCHANGED << engineVars, msg_h, tx_buf, send_res, send_ret, nSends, overrun, rx >>

\* write(STDOUT_FILENO, tx_buf, res); return msg->data_len
msg_send_frame ==
    /\ spc = "write_frame"
    /\ stdout' = stdout \o SubSeq(tx_buf, 1, Min(send_res, MAX_BUF_LENGTH))
    /\ send_ret' = msg_h.data_len
    /\ spc' = "idle"
    /\ UNCHANGED << engineVars, msg_h, tx_buf, send_res, nSends, overrun, rx >>

\* the receiving end has read all of stdout
frameReceived ==
    /\ spc = "idle"
    /\ rx # DecodeStream(stdout)
    /\ rx' = DecodeStream(stdout)
    /\ UNCHANGED << engineVars, msg_h, tx_buf, send_res, send_ret, stdout, spc, nSends, overrun >>

\* the engine does not run; the firmware is about to send a message
InitSend ==
    /\ InitCommon
    /\ pc = "idle" /\ mode = "none" /\ step = "none"
    /\ start_addr = 0 /\ data = << >> /\ sector = 0 /\ addr = 0 /\ wdata = << >>
    /\ tx_buf = EmptyBuf
    /\ send_res = 0 /\ send_ret = NoReturn /\ stdout = << >>
    /\ spc = "idle" /\ nSends = 0 /\ overrun = FALSE /\ rx = << >>
    /\ \E id \in MsgIds, d \in ShortData \cup LongData :
            msg_h = [crc |-> << 0, 0 >>, id |-> id, data_len |-> Len(d), data |-> d]

NextSend ==
    \/ cmd_test
    \/ msg_send
    \/ msg_send_lead
    \/ msg_send_frame
    \/ frameReceived

SpecSend == InitSend /\ [][NextSend]_vars

-----------------------------------------------------------------------------
(* Properties *)

Done == pc = "done"
Pipeline == mode = "pipeline"
Direct == mode = "direct"

\* a BootWriteData request that addresses the entry vector [start, start+8)
WritesVector(msg) ==
    msg.id = "BOOT_WRITE_DATA" /\ msg.address < start_addr + VectorSize

\* C1: in every run of sendHexFile, however it ends, a BootWriteData request
\* addressing [start, start+8) is sent only after bootWriteData(start+8, bytes[8:])
\* and bootVerifyData(start+8, bytes[8:]) have both run to their "return true".
C1_VectorWrittenLast ==
    (Pipeline /\ WritesVector(lastSent)) =>
        /\ << "write1", 0 >> \in completed
        /\ << "verify", 0 >> \in completed

\* the entry vector of an image with a non-empty remainder is being written
C1_Witness ==
    /\ Pipeline /\ WritesVector(lastSent)
    /\ Len(data) > VectorSize
    /\ step = "write2"

\* C2: during bootWriteData the number of BootWriteData requests sent minus
\* the number of BootResponses consumed by the call never exceeds 10.
C2_WindowNeverExceeded ==
    IsWrite => chunksSent - acksConsumed <= MaxAckWindow

\* C3: a bootWriteData call on a region of n chunks that returns true without
\* having been cancelled has sent exactly n requests and consumed exactly n
\* responses, each with status FLASH_COMPLETE.
C3_AllChunksAcknowledged ==
    (Direct /\ IsWrite /\ Done /\ result = "true" /\ cancelSeenAt = "none") =>
        /\ chunks = ChunkCount(Len(wdata))
        /\ chunksSent = chunks
        /\ acksConsumed = chunks
        /\ ackStatuses \subseteq {FLASH_COMPLETE}

\* a region of 25 chunks has been written
C3_Witness ==
    /\ Direct /\ IsWrite /\ Done /\ result = "true" /\ cancelSeenAt = "none"
    /\ chunks = 25 /\ acksConsumed = 25

\* C4: without cancellation, bootEnter is attempted exactly 100 times when no
\* attempt succeeds and the run then fails with "Can't enter boot loader"; when
\* attempt k is the first to succeed exactly k attempts are made (1 <= k <= 100)
\* and the run goes on to erasing.
C4_EnterRetryBound ==
    Pipeline =>
        \* no attempt after a success and none beyond the bound
        /\ (pc \in {"reset", "enter"} => ~ok /\ firstOk = 0 /\ tries <= MaxTries)
        /\ nEnter <= MaxTries
        \* the loop is left after the first success, with k attempts made
        /\ (pc = "loop" /\ ok => nEnter = firstOk /\ firstOk \in 1..MaxTries)
        /\ (pc = "eraseLoop" => ok)
        \* a run that ends in the enter phase uncancelled has used up the bound
        /\ (Done /\ step = "enter" /\ cancelSeenAt = "none" =>
                /\ ~ok /\ firstOk = 0 /\ nEnter = MaxTries
                /\ result = "false" /\ m_errorString = ErrCantEnter)

\* the hundredth attempt is the first to succeed
C4_Witness == Pipeline /\ pc = "loop" /\ ok /\ firstOk = MaxTries

\* all hundred attempts failed
C4_WitnessExhausted ==
    Pipeline /\ Done /\ step = "enter" /\ cancelSeenAt = "none" /\ nEnter = MaxTries

\* C5: once wasCanceled() has returned true at a check, sendHexFile sends no
\* further message and does nothing but return.
C5_NoRequestAfterCancel ==
    Pipeline =>
        /\ sentAfterCancel = 0
        /\ (cancelSeenAt # "none" => pc \in {"step", "done"})

\* the run was cancelled in the middle of a region write, chunks still unsent
C5_Witness ==
    Pipeline /\ Done /\ cancelSeenAt = "chunk" /\ chunksSent < chunks

\* C6 as claimed: the result of a cancelled run differs from that of a failure
\* ("false") and from that of a run that completed all six steps ("true").
C6_CancelledIsDistinct ==
    (Pipeline /\ Done /\ cancelSeenAt # "none") => result \notin {"false", "true"}

\* C6 as amended: a cancelled run returns true, as does a run that completed
\* all six steps; only a failure returns false, and never after the
\* cancellation was observed.
C6_CancelledReturnsTrue ==
    (Pipeline /\ Done) =>
        /\ (cancelSeenAt # "none" => result = "true")
        /\ (<< "exit", 0 >> \in completed => result = "true")
        /\ (result = "false" => cancelSeenAt = "none" /\ << "exit", 0 >> \notin completed)

\* a run cancelled before its last step has returned true
C6_Witness ==
    /\ Pipeline /\ Done /\ cancelSeenAt = "step" /\ result = "true"
    /\ << "exit", 0 >> \notin completed

\* C7 as claimed: cancellation is observed at step boundaries only, a step that
\* has started runs to its own success or failure.
C7_PolledAtBoundariesOnly ==
    /\ cancelSeenAt \in {"none", "step"}
    /\ (Pipeline /\ pc = "step" /\ IsWrite /\ ret => chunksSent = chunks)

\* C7 as amended: cancellation is observed at step boundaries and, inside
\* bootWriteData, after a chunk was sent; no response wait observes it: a wait
\* ends with a response or with its time used up, whether or not Cancel was
\* pressed, so enter, erase, verify and exit run to their own success or failure.
C7_PolledAtBoundariesAndChunks ==
    Pipeline =>
        /\ (cancelSeenAt = "chunk" => IsWrite /\ chunksSent >= 1)
        /\ (pc \in {"wait", "poll", "ret"} => cancelSeenAt = "none")
        /\ (pc = "ret" /\ ~got => timeout <= 0 /\ m_errorString = ErrTimeOut)
        /\ (pc = "ret" /\ got => timeout > 0)

\* Cancel was pressed during an erase; the erase still got its answer
C7_Witness ==
    Pipeline /\ pc = "ret" /\ step = "erase" /\ canceled /\ got /\ cancelSeenAt = "none"

RECURSIVE FromDigits(_, _)
\* the number a sequence of digits, most significant first, denotes
FromDigits(ds, base) ==
    IF ds = << >> THEN 0
    ELSE FromDigits(SubSeq(ds, 1, Len(ds) - 1), base) * base + ds[Len(ds)]

\* the enumerators of FLASH_Status, by value
StatusNames ==
    << "FLASH_BUSY", "FLASH_ERROR_RD", "FLASH_ERROR_PGS", "FLASH_ERROR_PGP",
       "FLASH_ERROR_PGA", "FLASH_ERROR_WRP", "FLASH_ERROR_PROGRAM",
       "FLASH_ERROR_OPERATION", "FLASH_COMPLETE" >>

\* text names the status: by its enumerator, or by its decimal number
NamesStatus(text, status) ==
    IF status \in 1..9
    THEN text = StatusNames[status]
    ELSE /\ text \in Seq(0..9) /\ Len(text) >= 1
         /\ FromDigits(text, 10) = status

\* C8: bootEraseSector(sector) returns true iff a BootResponse arrives within
\* the 2000 ms wait and its status byte is FLASH_COMPLETE (9); with any other
\* status byte it fails with a message that names the sector and the decoded
\* status (the FLASH_Status enumerator, or the decimal number outside 1..9).
C8_EraseStatus ==
    (Direct /\ step = "erase") =>
        /\ (pc \in {"wait", "poll"} => timeout <= EraseTimeout)
        /\ (pc = "ret" => (got <=> timeout > 0))
        /\ (Done => (result = "true" <=> (got /\ res[1] = FLASH_COMPLETE)))
        /\ (Done /\ ~got => result = "false" /\ m_errorString = ErrTimeOut)
        /\ (Done /\ got /\ res[1] # FLASH_COMPLETE =>
                /\ result = "false"
                /\ Len(m_errorString) = 3
                /\ m_errorString[1] = "Can't erase sector %d: %s"
                /\ FromDigits(m_errorString[2], 10) = sector
                /\ NamesStatus(m_errorString[3], res[1]))

\* erasing sector 5 was answered with status 1: the failure names FLASH_BUSY
C8_Witness ==
    /\ Direct /\ step = "erase" /\ Done /\ sector = 5
    /\ got /\ res[1] = FLASH_BUSY /\ result = "false"
    /\ m_errorString[3] = "FLASH_BUSY"

\* erasing was answered with a status outside the enumeration
C8_WitnessNumeric ==
    /\ Direct /\ step = "erase" /\ Done
    /\ got /\ res[1] = 255 /\ m_errorString[3] = << 2, 5, 5 >>

\* the 32-bit word that up to eight hexadecimal digits denote
U32FromHex(ds) ==
    LET p == PadLeft(ds, 8) IN
    << p[7] * 16 + p[8], p[5] * 16 + p[6], p[3] * 16 + p[4], p[1] * 16 + p[2] >>

\* C9: bootVerifyData returns true iff a BootResponse arrives within the wait
\* and the 32-bit word in its first four bytes equals the checksum computed
\* over the same bytes; when the two differ it fails with a message that
\* carries the local and the remote value.
C9_VerifyChecksum ==
    (Direct /\ step = "verify" /\ Done) =>
        /\ (result = "true" <=> (got /\ U32(res) = crc32(wdata)))
        /\ (~got => result = "false" /\ m_errorString = ErrTimeOut)
        /\ (got /\ U32(res) # crc32(wdata) =>
                /\ result = "false"
                /\ Len(m_errorString) = 3
                /\ m_errorString[1] = "Image CRC check failed. Expected 0x%04x, got 0x%04x"
                /\ Len(m_errorString[2]) <= 8 /\ Len(m_errorString[3]) <= 8
                /\ U32FromHex(m_errorString[2]) = crc32(wdata)
                /\ U32FromHex(m_errorString[3]) = U32(res))

\* the reported checksum differs from the local one in its upper half only
C9_Witness ==
    /\ Direct /\ step = "verify" /\ Done /\ got
    /\ U32(res) # crc32(wdata)
    /\ res[1] = crc32(wdata)[1] /\ res[2] = crc32(wdata)[2]
    /\ result = "false"

\* C10: the first consumed acknowledgement whose status is not FLASH_COMPLETE
\* makes bootWriteData return false with a message that reports the address of
\* the chunk it acknowledges and the decoded status; nothing more is sent or
\* consumed by the call.
C10_ReportsOffendingChunk ==
    (Direct /\ IsWrite /\ Done /\ failIdx >= 0) =>
        /\ result = "false"
        /\ acksConsumed = failIdx + 1
        /\ m_errorString = ErrCantWrite(addr + failIdx * ChunkSize, res[1])

\* the steps of the pipeline that precede the step a request belongs to
AllErases == {<< "erase", s >> : s \in FirstSector..(EndSector - 1)}
StepsBefore(msg) ==
    CASE msg.id = "BOOT_ERASE_SECTOR" ->
            {<< "enter", 0 >>} \cup {<< "erase", s >> : s \in FirstSector..(msg.sector - 1)}
      [] msg.id = "BOOT_WRITE_DATA" /\ ~WritesVector(msg) ->
            {<< "enter", 0 >>} \cup AllErases
      [] msg.id = "BOOT_VERIFY" ->
            {<< "enter", 0 >>, << "write1", 0 >>} \cup AllErases
      [] msg.id = "BOOT_WRITE_DATA" /\ WritesVector(msg) ->
            {<< "enter", 0 >>, << "write1", 0 >>, << "verify", 0 >>} \cup AllErases
      [] msg.id = "BOOT_EXIT" ->
            {<< "enter", 0 >>, << "write1", 0 >>, << "verify", 0 >>, << "write2", 0 >>}
                \cup AllErases
      [] OTHER -> {}

\* the step of the pipeline a request belongs to
StepOf(msg) ==
    CASE msg.id \in {"SHELL_FROM_PC", "BOOT_ENTER"} -> "enter"
      [] msg.id = "BOOT_ERASE_SECTOR" -> "erase"
      [] msg.id = "BOOT_WRITE_DATA" -> IF WritesVector(msg) THEN "write2" ELSE "write1"
      [] msg.id = "BOOT_VERIFY" -> "verify"
      [] msg.id = "BOOT_EXIT" -> "exit"
      [] OTHER -> "none"

\* C11: sendHexFile sends the requests of its steps in the order enter, erase
\* of sectors 4..11 ascending, write of [start+8, end), verify of the same
\* region, write of [start, start+8), exit; a request of a step is sent only
\* after every step before it has returned true, and once a step has returned
\* false the run returns false with nothing sent after that step's requests.
C11_StepsInOrder ==
    Pipeline =>
        /\ StepsBefore(lastSent) \subseteq completed
        /\ (lastSent.id = "BOOT_ERASE_SECTOR" =>
                /\ lastSent.sector \in FirstSector..(EndSector - 1)
                /\ lastSent.sector \in {sector - 1, sector}
                /\ (step = "erase" /\ pc \in {"wait", "poll", "ret"} => lastSent.sector = sector))
        /\ (lastSent.id = "BOOT_VERIFY" =>
                lastSent.address = start_addr + VectorSize)
        /\ (lastSent.id = "BOOT_WRITE_DATA" =>
                /\ lastSent.address >= start_addr
                /\ (IsWrite /\ pc \in {"w_ack", "wait", "poll", "ret"} => StepOf(lastSent) = step))
        \* a step function has returned false: the run ends, the last request is that step's
        /\ (pc = "step" /\ ~ret => StepOf(lastSent) = step /\ Tag \notin completed)
        /\ (Done /\ result = "false" /\ step \notin {"none", "enter"} =>
                /\ ~ret /\ StepOf(lastSent) = step /\ Tag \notin completed
                /\ (step = "erase" => lastSent.sector = sector))
        /\ (Done /\ result = "false" /\ step = "enter" =>
                StepOf(lastSent) = "enter" /\ << "enter", 0 >> \notin completed)
        /\ (Done /\ result = "false" /\ step = "none" => lastSent = NoMsg)

\* all six steps ran, the exit request was the last one sent
C11_Witness ==
    /\ Pipeline /\ Done /\ result = "true" /\ lastSent.id = "BOOT_EXIT"
    /\ << "exit", 0 >> \in completed

\* the erase of sector 6 failed: the run ended there
C11_WitnessAbort ==
    /\ Pipeline /\ Done /\ result = "false" /\ step = "erase" /\ sector = 6
    /\ lastSent = [id |-> "BOOT_ERASE_SECTOR", sector |-> 6]

\* the frame msg_send has put into tx_buf
FrameInBuf == SubSeq(tx_buf, 1, send_res)

\* s holds a 0 as its last byte and nowhere else
TerminatorOnlyLast(s) ==
    /\ Len(s) >= 1 /\ s[Len(s)] = 0
    /\ \A k \in 1..(Len(s) - 1) : s[k] # 0

\* C12: decoding the encoding of a byte sequence gives the sequence back, for
\* payloads of every length up to MSG_MAX_DATA_SIZE, with and without 0 bytes,
\* alone and behind the four bytes of checksum and id; the frame msg_send puts
\* on the wire holds 0x00 as its final byte and nowhere else, and the receiving
\* end gets the sent bytes back from it.
C12_RoundTrip ==
    /\ cobsr_decode(cobsr_blocks(msg_h.data)) = msg_h.data
    /\ cobsr_decode(cobsr_blocks(HeaderAndData(msg_h))) = HeaderAndData(msg_h)
    /\ \A k \in DOMAIN cobsr_blocks(HeaderAndData(msg_h)) :
            cobsr_blocks(HeaderAndData(msg_h))[k] \in 1..255
    /\ (spc \in {"write_lead", "write_frame"} =>
            /\ TerminatorOnlyLast(FrameInBuf)
            /\ cobsr_decode(SubSeq(FrameInBuf, 1, send_res - 1)) = HeaderAndData(msg_h))
    /\ (spc = "idle" /\ send_ret >= 0 /\ rx # << >> =>
            \A k \in DOMAIN rx : rx[k] = HeaderAndData(msg_h))

\* a payload of the largest length with a 0 in it, behind a run of 254 bytes
\* without one, has been sent and received
C12_Witness ==
    /\ spc = "idle" /\ send_ret = MSG_MAX_DATA_SIZE /\ msg_h.data_len = MSG_MAX_DATA_SIZE
    /\ tx_buf[1] = MaxCode
    /\ \E k \in DOMAIN msg_h.data : msg_h.data[k] = 0
    /\ Len(rx) = 1 /\ rx[1] = HeaderAndData(msg_h)

\* the bytes one msg_send of message m is to put on the output stream
WireFrame(m) ==
    << 0 >> \o cobsr_blocks(crc16(m.id \o m.data) \o m.id \o m.data) \o << 0 >>

RECURSIVE Repeat(_, _)
\* n times the sequence f
Repeat(f, n) == IF n = 0 THEN << >> ELSE f \o Repeat(f, n - 1)

\* C13: msg_send of a message with data_len <= MSG_MAX_DATA_SIZE succeeds; a
\* successful msg_send has stamped the checksum over id and data into the
\* message and has written one 0, the encoding of checksum, id and data, and
\* one 0, in this order and nothing else, and returns data_len; no byte is
\* ever stored outside tx_buf; a msg_send whose encoding fails returns -1 and
\* has written nothing.
C13_SendWritesFrame ==
    /\ ~overrun
    /\ send_res <= MAX_BUF_LENGTH
    /\ (msg_h.data_len <= MSG_MAX_DATA_SIZE => send_ret # -1)
    /\ (spc = "write_lead" =>
            /\ msg_h.crc = crc16(msg_h.id \o msg_h.data)
            /\ stdout = Repeat(WireFrame(msg_h), nSends - 1))
    /\ (spc = "write_frame" =>
            stdout = Repeat(WireFrame(msg_h), nSends - 1) \o << 0 >>)
    /\ (spc = "idle" /\ send_ret >= 0 =>
            /\ send_ret = msg_h.data_len
            /\ msg_h.crc = crc16(msg_h.id \o msg_h.data)
            /\ stdout = Repeat(WireFrame(msg_h), nSends))
    /\ (send_ret = -1 => spc \in {"idle", "call"} /\ stdout = << >>)

\* a message of the largest length has been sent twice
C13_Witness ==
    /\ spc = "idle" /\ nSends = 2 /\ send_ret = MSG_MAX_DATA_SIZE
    /\ stdout = WireFrame(msg_h) \o WireFrame(msg_h)
    /\ send_res = MAX_BUF_LENGTH - 1

\* the encoding of a message that is too long did not fit
C13_WitnessTooLong ==
    spc = "idle" /\ nSends = 1 /\ send_ret = -1 /\ msg_h.data_len > MSG_MAX_DATA_SIZE

\* q[k] is the oldest BootResponse of q
OldestResponseAt(q, k) ==
    /\ k \in 1..Len(q) /\ q[k].id = "BOOT_RESPONSE"
    /\ \A j \in 1..(k - 1) : q[j].id # "BOOT_RESPONSE"

\* C14: a message that arrives is put at the tail of the queue; when
\* bootGetResponse returns a response it is the oldest queued BootResponse,
\* which is removed with every message before it, while the messages behind it
\* stay queued in their order; messages of other ids are removed and never
\* returned; a wait that times out leaves the queue as it is.
C14_OldestResponseFirst ==
    [][ /\ (Len(messageQueue') > Len(messageQueue) =>
                /\ Len(messageQueue') = Len(messageQueue) + 1
                /\ SubSeq(messageQueue', 1, Len(messageQueue)) = messageQueue
                /\ UNCHANGED << res, got >>)
        /\ (pc = "wait" /\ pc' = "ret" /\ got' =>
                \E k \in 1..Len(messageQueue) :
                    /\ OldestResponseAt(messageQueue, k)
                    /\ res' = messageQueue[k].data
                    /\ messageQueue' = SubSeq(messageQueue, k + 1, Len(messageQueue)))
        /\ (pc = "wait" /\ pc' = "poll" =>
                /\ \A k \in 1..Len(messageQueue) : messageQueue[k].id # "BOOT_RESPONSE"
                /\ messageQueue' = << >>
                /\ UNCHANGED << res, got >>)
        /\ (pc = "wait" /\ pc' = "ret" /\ ~got' => UNCHANGED << messageQueue, res >>)
        /\ (pc # "wait" => Len(messageQueue') >= Len(messageQueue))
      ]_vars

\* the queue held another message, a response with status 1 and one with
\* status 9: the first response was returned, the second is still queued
C14_Witness ==
    /\ Direct /\ step = "get" /\ pc = "ret" /\ got /\ polls = 0
    /\ res = Status(EnterOk)
    /\ messageQueue = << Resp(Status(FLASH_COMPLETE)) >>

\* the shell message that makes a running firmware reset: Ctrl-C, then the
\* line "reset"
ResetRequest == [id |-> "SHELL_FROM_PC", text |-> << 3, 10, "reset", 10 >>]

\* BootEnter with the magic 0xB00710AD
EnterRequest == [id |-> "BOOT_ENTER", magic |-> << 173, 16, 7, 176 >>]

\* C15: every bootEnter attempt sends the reset shell message and then
\* BootEnter with the magic, these two and nothing else; it then waits for a
\* BootResponse for the default time, and the attempt succeeds iff a response
\* arrived and its status byte is 1.
C15_EnterAttempt ==
    (Pipeline /\ step = "enter") =>
        \* before an attempt: nothing was sent yet, or the two messages of the attempt before
        /\ (pc \in {"loop", "reset"} =>
                \/ (nEnter = 0 /\ lastSent = NoMsg)
                \/ (nEnter >= 1 /\ lastSent = EnterRequest /\ prevSent = ResetRequest))
        \* between the two messages
        /\ (pc = "enter" =>
                /\ lastSent = ResetRequest
                /\ prevSent = (IF nEnter = 1 THEN NoMsg ELSE EnterRequest))
        \* the wait and the result
        /\ (pc \in {"wait", "poll", "ret", "step"} =>
                lastSent = EnterRequest /\ prevSent = ResetRequest)
        /\ (pc \in {"wait", "poll"} => timeout + polls * PollInterval = DefaultTimeout)
        /\ (pc = "wait" => timeout > -PollInterval)
        /\ (pc = "step" => (ok <=> (got /\ res[1] = 1)))
        /\ (pc = "step" /\ ~got => m_errorString = << "Time out" >>)

\* the second attempt was answered with status 1
C15_Witness ==
    /\ Pipeline /\ step = "enter" /\ pc = "step" /\ nEnter = 2
    /\ ok /\ got /\ res[1] = 1
    /\ lastSent = EnterRequest /\ prevSent = ResetRequest

\* an attempt was answered with another status
C15_WitnessRefused ==
    Pipeline /\ step = "enter" /\ pc = "step" /\ ~ok /\ got /\ res[1] = FLASH_COMPLETE

\* the timeout the step being executed gives its waits
WaitBudget == IF step = "erase" THEN 2000 ELSE DefaultTimeout

\* ceil(t / 10)
MaxRounds(t) == (t + 9) \div 10

Waiting == pc \in {"wait", "poll"}

\* what is left of the wait: rounds, and the half round to the next test
WaitMeasure == 2 * (MaxRounds(WaitBudget) - polls) + (IF pc = "wait" THEN 1 ELSE 0)

\* C16, the state part: a wait starts with the full timeout of its step,
\* whatever the waits before it used up; it makes at most ceil(T/10) polling
\* rounds; it returns a response found within them, or after exactly that many
\* rounds it returns false with "Time out"; while it waits it can always go on.
C16_WaitState ==
    /\ (pc \in {"wait", "poll", "ret"} =>
            /\ polls \in 0..MaxRounds(WaitBudget)
            /\ timeout = WaitBudget - 10 * polls)
    /\ (pc = "poll" => polls < MaxRounds(WaitBudget))
    /\ (pc = "ret" /\ got => polls < MaxRounds(WaitBudget))
    /\ (pc = "ret" /\ ~got =>
            polls = MaxRounds(WaitBudget) /\ m_errorString = << "Time out" >>)
    /\ (Waiting => ENABLED (bootGetResponse \/ bootGetResponsePoll))

\* C16, the step part: every step of the wait brings its end nearer, and
\* nothing is sent while it lasts.
C16_WaitStep ==
    Waiting =>
        /\ UNCHANGED << lastSent, prevSent, sentAfterCancel >>
        /\ (pc' # pc => pc' \in {"wait", "poll", "ret"})
        /\ (pc' # pc /\ pc' \in {"wait", "poll"} => WaitMeasure' < WaitMeasure /\ WaitMeasure' >= 0)

\* C16: every bootGetResponse call ends: with a response, or after at most
\* ceil(T/10) polling rounds of 10 ms with false and "Time out"; T is that of
\* the call alone, and the wait sends nothing.
C16_WaitTerminates ==
    /\ []C16_WaitState
    /\ [][C16_WaitStep]_vars
    /\ (Waiting ~> pc = "ret")

\* the erase of sector 5 timed out after 200 rounds
C16_Witness ==
    /\ step = "erase" /\ sector = 5
    /\ pc = "ret" /\ ~got /\ polls = 200 /\ timeout = 0

\* the wait for the third acknowledgement of a write timed out after its own
\* full number of rounds
C16_WitnessLaterWait ==
    /\ IsWrite /\ acksConsumed = 2
    /\ pc = "ret" /\ ~got /\ polls = MaxRounds(DefaultTimeout)

\* ceil(len / ChunkSize)
CeilChunks(len) == CHOOSE n \in 0..len : (n - 1) * ChunkSize < len /\ len <= n * ChunkSize

\* the bytes of chunk k (from 0) of the region being written
ChunkBytes(k) ==
    LET first == k * ChunkSize
        last == IF first + ChunkSize < Len(wdata) THEN first + ChunkSize ELSE Len(wdata)
    IN  [j \in 1..(last - first) |-> wdata[first + j]]

\* the request that is to carry chunk k
ChunkRequest(k) ==
    [id |-> "BOOT_WRITE_DATA", address |-> addr + k * ChunkSize, data |-> ChunkBytes(k)]

RECURSIVE ChunksUpTo(_)
\* chunks 0..k-1, one after the other
ChunksUpTo(k) == IF k = 0 THEN << >> ELSE ChunksUpTo(k - 1) \o ChunkBytes(k - 1)

\* C17: bootWriteData(addr, data) sends its requests in ascending order, the
\* k-th with address addr + k * ChunkSize and the bytes of data from k *
\* ChunkSize on, ChunkSize of them or what is left; a call that returns true
\* uncancelled has sent ceil(len / ChunkSize) requests, which together carry
\* data once, from its first to its last byte; only the last chunk may be
\* short; for an empty data nothing is sent and nothing waited for.
C17_ChunksCoverData ==
    (Direct /\ IsWrite /\ pc # "w_call") =>
        /\ chunksSent \in 0..CeilChunks(Len(wdata))
        /\ (chunksSent = 0 => lastSent = NoMsg)
        /\ (chunksSent >= 1 =>
                /\ lastSent = ChunkRequest(chunksSent - 1)
                /\ Len(lastSent.data) \in 1..ChunkSize
                /\ (chunksSent < CeilChunks(Len(wdata)) => Len(lastSent.data) = ChunkSize))
        /\ (chunksSent = 1 => prevSent = NoMsg)
        /\ (chunksSent >= 2 => prevSent = ChunkRequest(chunksSent - 2))
        /\ ChunksUpTo(chunksSent) = SubSeq(wdata, 1, Min(chunksSent * ChunkSize, Len(wdata)))
        /\ (Done /\ result = "true" /\ cancelSeenAt = "none" =>
                /\ chunksSent = CeilChunks(Len(wdata))
                /\ ChunksUpTo(chunksSent) = wdata)
        /\ (Len(wdata) = 0 =>
                /\ pc \notin {"wait", "poll", "ret", "w_ack"}
                /\ lastSent = NoMsg /\ acksConsumed = 0 /\ ~got)

\* a region of 25 chunks, the last of them short, has been written
C17_Witness ==
    /\ Direct /\ IsWrite /\ Done /\ result = "true" /\ cancelSeenAt = "none"
    /\ chunksSent = 25 /\ Len(wdata) = 25 * ChunkSize - 1
    /\ Len(lastSent.data) = ChunkSize - 1
    /\ lastSent.address = addr + 24 * ChunkSize

\* an empty region has been written
C17_WitnessEmpty ==
    Direct /\ IsWrite /\ Done /\ result = "true" /\ Len(wdata) = 0 /\ lastSent = NoMsg

\* C19: the BootResponse a step consumes is the target's answer to the request
\* that step is waiting for: never the answer to a request of an earlier step
\* or of an earlier bootEnter attempt.
C19_ResponseAnswersOwnRequest ==
    [][ (pc = "wait" /\ pc' = "ret" /\ got') =>
            messageQueue[FirstResponse(messageQueue, 1)].req = AwaitedRequest
      ]_vars

\* m_errorString describes a response with a bad status (or checksum) consumed
\* by the step being executed
DescribesStatus ==
    CASE step = "enter" ->
            /\ Len(m_errorString) = 2
            /\ m_errorString[1] = "Can't enter bootloader: %d"
            /\ FromDigits(m_errorString[2], 10) = res[1]
      [] step = "exit" ->
            /\ Len(m_errorString) = 2
            /\ m_errorString[1] = "Can't exit bootloader: %d"
            /\ FromDigits(m_errorString[2], 10) = res[1]
      [] step = "erase" ->
            /\ Len(m_errorString) = 3
            /\ m_errorString[1] = "Can't erase sector %d: %s"
            /\ FromDigits(m_errorString[2], 10) = sector
            /\ NamesStatus(m_errorString[3], res[1])
      [] step \in {"write1", "write2"} ->
            /\ Len(m_errorString) = 3
            /\ m_errorString[1] = "Can't write data at 0x%08x: %s"
            /\ NamesStatus(m_errorString[3], res[1])
      [] step = "verify" ->
            /\ Len(m_errorString) = 3
            /\ m_errorString[1] = "Image CRC check failed. Expected 0x%04x, got 0x%04x"
            /\ U32FromHex(m_errorString[2]) = crc32(wdata)
            /\ U32FromHex(m_errorString[3]) = U32(res)
      [] OTHER -> FALSE

\* m_errorString describes the failure of the step function that has just
\* returned false: its wait timed out, or the response it got was bad
DescribesStepFailure ==
    IF got THEN DescribesStatus ELSE m_errorString = << "Time out" >>

\* C20: when bootGetResponse, a step function or sendHexFile has returned
\* false, m_errorString holds the description of that very failure: "Time out"
\* for a wait that timed out, the status or checksum message of the step for a
\* bad response, the loader's message when the file could not be read, and
\* "Can't enter boot loader" when all attempts to enter failed, not the text
\* of an earlier failure.
C20_ErrorDescribesFailure ==
    Pipeline =>
        /\ (pc = "ret" /\ ~got => m_errorString = << "Time out" >>)
        /\ (pc = "step" /\ step = "enter" /\ ~ok => DescribesStepFailure)
        /\ (pc = "step" /\ step # "enter" /\ ~ret => DescribesStepFailure)
        /\ (Done /\ result = "false" =>
                CASE step = "none"  -> m_errorString = << "ih.errorString()" >>
                  [] step = "enter" -> m_errorString = << "Can't enter boot loader" >>
                  [] OTHER          -> DescribesStepFailure)

\* all attempts to enter failed, the last of them on a response with another
\* status: the run reports the exhaustion
C20_Witness ==
    /\ Pipeline /\ Done /\ result = "false" /\ step = "enter"
    /\ got /\ res[1] = FLASH_COMPLETE
    /\ m_errorString = << "Can't enter boot loader" >>

\* the verify step got a response that is not the checksum
C20_WitnessVerify ==
    /\ Pipeline /\ Done /\ result = "false" /\ step = "verify" /\ got
    /\ m_errorString[1] = "Image CRC check failed. Expected 0x%04x, got 0x%04x"

=============================================================================
